---- MODULE Spec2Model ----
(***************************************************************************)
(* A model of egui-wgpu's render-state construction (RenderState::create,  *)
(* preferred_framebuffer_format, depth_format_from_bits, the default       *)
(* surface-error policy) and of egui_kittest's offscreen frame renderer    *)
(* (WgpuTestRenderer::handle_delta / render).                              *)
(***************************************************************************)
EXTENDS Integers, Sequences, FiniteSets, TLC

\* ------------------------------------------------------------------ bounds

\* Longest list of surface formats the surface capability query reports.
MaxFormats == 3

\* Most presentation errors handed to the surface-error policy in one run.
MaxSurfaceErrors == 4

\* Most calls (of handle_delta and render together) a test renderer receives.
MaxCalls == 3

\* Most command buffers update_buffers returns for one frame.
MaxUserBuffers == 2

\* Most calls the busier of two test renderers sharing a RenderState receives.
MaxSharedCalls == 2

\* Most calls the busier of two test renderers contending for the Renderer
\* receives.
MaxGuardCalls == 1

\* ------------------------------------------------------- values and helpers

\* wgpu::TextureFormat values a surface may report: the two the code prefers
\* and two it does not.
TextureFormats == {"Rgba8Unorm", "Bgra8Unorm", "Rgba8UnormSrgb", "Rgba16Float"}

\* wgpu::Backends, as sets of backend names; Backends::all() is every backend.
AllBackends == {"Vulkan", "Gl"}

\* Adapter, device and queue handles (Arc<wgpu::Adapter>, ...); "none" is the
\* absence of a handle.
Adapters == {"a1", "a2"}

Devices == {"d1", "d2"}

Queues == {"q1", "q2"}

\* wgpu::PowerPreference values a configuration may carry.
PowerPreferences == {"None", "LowPower", "HighPerformance"}

\* Failure strings a custom adapter selector may return.
SelectorMessages == {"no discrete gpu", "unsupported"}

\* adapter.get_info().backend
BackendOf(a) == IF a = "a1" THEN "Vulkan" ELSE "Gl"

\* The device and the queue that adapter.request_device yields for an adapter.
DeviceOf(a) == IF a = "a1" THEN "d1" ELSE "d2"

QueueOf(a) == IF a = "a1" THEN "q1" ELSE "q2"

Range(s) == {s[i] : i \in 1..Len(s)}

SeqsUpTo(S, n) == UNION {[1..k -> S] : k \in 0..n}

\* Result<T, E>
Ok(v) == [tag |-> "Ok", val |-> v]

Err(e) == [tag |-> "Err", val |-> e]

\* Option<T>
None == [tag |-> "None", val |-> "none"]

\* ------------------------------------------------------------- pure functions

\* The `for &format in formats` loop of preferred_framebuffer_format: the index
\* of the first format from position i on that matches
\* Rgba8Unorm | Bgra8Unorm, or 0 when the loop ends without returning.
RECURSIVE FirstPreferredFrom(_, _)
FirstPreferredFrom(formats, i) ==
    IF i > Len(formats) THEN 0
    ELSE IF formats[i] \in {"Rgba8Unorm", "Bgra8Unorm"} THEN i
    ELSE FirstPreferredFrom(formats, i + 1)

\* A variant of the function whose fallback is the last reported format.
preferred_framebuffer_format_LastFallback(formats) ==
    IF FirstPreferredFrom(formats, 1) # 0
    THEN Ok(formats[FirstPreferredFrom(formats, 1)])
    ELSE IF Len(formats) > 0 THEN Ok(formats[Len(formats)])
    ELSE Err("NoSurfaceFormatsAvailable")

\* A variant of the function that answers with a default format instead of
\* failing on the empty list.
preferred_framebuffer_format_Defaulting(formats) ==
    IF FirstPreferredFrom(formats, 1) # 0
    THEN Ok(formats[FirstPreferredFrom(formats, 1)])
    ELSE IF Len(formats) > 0 THEN Ok(formats[1])
    ELSE Ok("Rgba8Unorm")

\* A variant of the function that looks for Rgba8Unorm through the whole list
\* before it considers Bgra8Unorm.
preferred_framebuffer_format_RgbaFirst(formats) ==
    IF \E i \in 1..Len(formats) : formats[i] = "Rgba8Unorm" THEN Ok("Rgba8Unorm")
    ELSE IF \E i \in 1..Len(formats) : formats[i] = "Bgra8Unorm" THEN Ok("Bgra8Unorm")
    ELSE IF Len(formats) > 0 THEN Ok(formats[1])
    ELSE Err("NoSurfaceFormatsAvailable")

\* A variant of the function that skips the preference loop.
preferred_framebuffer_format_FirstOnly(formats) ==
    IF Len(formats) > 0 THEN Ok(formats[1])
    ELSE Err("NoSurfaceFormatsAvailable")

\* preferred_framebuffer_format(formats): the first format that is Rgba8Unorm
\* or Bgra8Unorm, else formats.first(), else NoSurfaceFormatsAvailable.
preferred_framebuffer_format(formats) ==
    IF FirstPreferredFrom(formats, 1) # 0
    THEN Ok(formats[FirstPreferredFrom(formats, 1)])
    ELSE IF Len(formats) > 0 THEN Ok(formats[1])
    ELSE Err("NoSurfaceFormatsAvailable")

\* The largest u8: depth_buffer and stencil_buffer are u8.
U8Max == 255

\* A variant of the function that matches on (stencil, depth).
depth_format_from_bits_Swapped(depth_bits, stencil_bits) ==
    CASE <<stencil_bits, depth_bits>> = <<0, 8>> -> [tag |-> "Some", val |-> "Stencil8"]
      [] <<stencil_bits, depth_bits>> = <<16, 0>> -> [tag |-> "Some", val |-> "Depth16Unorm"]
      [] <<stencil_bits, depth_bits>> = <<24, 0>> -> [tag |-> "Some", val |-> "Depth24Plus"]
      [] <<stencil_bits, depth_bits>> = <<24, 8>> -> [tag |-> "Some", val |-> "Depth24PlusStencil8"]
      [] <<stencil_bits, depth_bits>> = <<32, 0>> -> [tag |-> "Some", val |-> "Depth32Float"]
      [] <<stencil_bits, depth_bits>> = <<32, 8>> -> [tag |-> "Some", val |-> "Depth32FloatStencil8"]
      [] OTHER -> None

\* depth_format_from_bits(depth_buffer, stencil_buffer)
depth_format_from_bits(depth_bits, stencil_bits) ==
    CASE <<depth_bits, stencil_bits>> = <<0, 8>> -> [tag |-> "Some", val |-> "Stencil8"]
      [] <<depth_bits, stencil_bits>> = <<16, 0>> -> [tag |-> "Some", val |-> "Depth16Unorm"]
      [] <<depth_bits, stencil_bits>> = <<24, 0>> -> [tag |-> "Some", val |-> "Depth24Plus"]
      [] <<depth_bits, stencil_bits>> = <<24, 8>> -> [tag |-> "Some", val |-> "Depth24PlusStencil8"]
      [] <<depth_bits, stencil_bits>> = <<32, 0>> -> [tag |-> "Some", val |-> "Depth32Float"]
      [] <<depth_bits, stencil_bits>> = <<32, 8>> -> [tag |-> "Some", val |-> "Depth32FloatStencil8"]
      [] OTHER -> None

\* wgpu::SurfaceError
SurfaceErrors == {"Timeout", "Outdated", "Lost", "OutOfMemory"}

\* A variant of the policy that asks for a new surface when it was lost.
default_on_surface_error_RecreateOnLost(err) ==
    [action |-> IF err = "Lost" THEN "RecreateSurface" ELSE "SkipFrame",
     warned |-> err # "Outdated"]

\* WgpuConfiguration::default().on_surface_error: the action it returns and
\* whether it logged "Dropped frame with error: {err}".
default_on_surface_error(err) ==
    [action |-> "SkipFrame", warned |-> err # "Outdated"]

\* ------------------------------------------------------------------- state

VARIABLES
    \* RenderState::create: its inputs and environment
    target,             \* the build's target_arch: "native" or "wasm32"
    wgpu_setup,         \* config.wgpu_setup
    system_adapters,    \* the adapters the instance can enumerate or hand out
    surface_formats,    \* the formats the surface reports to get_capabilities
    \* RenderState::create: its locals and its outcome
    createPc,
    available_adapters,
    adapter,
    device,
    queue,
    capabilities,
    target_format,
    calls,              \* the calls create has made on its collaborators, in order
    createResult

createVars == <<target, wgpu_setup, system_adapters, surface_formats, createPc,
                available_adapters, adapter, device, queue, capabilities,
                target_format, calls, createResult>>

VARIABLES
    \* depth_format_from_bits: its arguments and what it returned
    depth_buffer,
    stencil_buffer,
    depth_format

depthVars == <<depth_buffer, stencil_buffer, depth_format>>

VARIABLES
    \* the default on_surface_error callback: the errors it was called with,
    \* the actions it returned and the warnings it logged, in order
    surface_errors,
    surface_actions,
    warnings

policyVars == <<surface_errors, surface_actions, warnings>>

\* The frame-producing contexts: each owns a WgpuTestRenderer whose
\* render_state is a clone of one RenderState, so all share its renderer,
\* device and queue.
Contexts == {"A", "B"}

\* egui::TextureId values a TexturesDelta may name.
TextureIds == {"t1", "t2"}

\* ScreenDescriptor::size_in_pixels values a frame may have.
ScreenSizes == {<<1, 1>>, <<2, 1>>}

VARIABLES
    \* shared through the RenderState
    renderer_lock,      \* who holds render_state.renderer.write(): "free" or a context
    textures,           \* the texture ids the Renderer holds
    submitted,          \* the queue: the submissions it received, in order
    completed,          \* how many of them the device has completed
    \* of each context
    budget,             \* the calls the harness has yet to make
    pc,                 \* where the context is in handle_delta or render
    delta,              \* handle_delta's argument
    frame_no,           \* calls of render so far
    encoder,            \* render's command encoder
    screen,             \* render's ScreenDescriptor::size_in_pixels
    user_buffers,       \* what update_buffers returned
    passes,             \* the render passes recorded in render's encoder
    texture,            \* render's offscreen texture
    image,              \* what render returns
    \* history
    free_requested,     \* the free set of the context's last delta
    synced,             \* a render of the context has returned since that delta
    renderer_ops        \* the calls made on the Renderer, in order

frameVars == <<renderer_lock, textures, submitted, completed, budget, pc, delta,
               frame_no, encoder, screen, user_buffers, texture, image,
               free_requested, synced, renderer_ops, passes>>

vars == <<createVars, depthVars, policyVars, frameVars>>

\* ------------------------------------------------------ RenderState::create

\* WgpuSetup::CreateNew(WgpuSetupCreateNew { .. })
CreateNew(backends, power, selector) ==
    [mode |-> "CreateNew", supported_backends |-> backends,
     power_preference |-> power, native_adapter_selector |-> selector,
     adapter |-> "none", device |-> "none", queue |-> "none"]

\* WgpuSetup::Existing { instance, adapter, device, queue }
Existing(a, d, q) ==
    [mode |-> "Existing", supported_backends |-> AllBackends,
     power_preference |-> "HighPerformance", native_adapter_selector |-> None,
     adapter |-> a, device |-> d, queue |-> q]

\* The values of Option<NativeAdapterSelectorMethod>: no selector, or a
\* selector with the result it returns when called.
SelectorOptions ==
    {None} \cup {[tag |-> "Some", val |-> Ok(a)] : a \in Adapters}
           \cup {[tag |-> "Some", val |-> Err(s)] : s \in SelectorMessages}

WgpuSetups ==
    {CreateNew(b, p, s) : b \in (SUBSET AllBackends) \ {{}},
                          p \in PowerPreferences, s \in SelectorOptions}
    \cup {Existing(a, d, q) : a \in Adapters, d \in Devices, q \in Queues}

\* The adapter lists a system may hold: no adapter is listed twice.
AdapterLists ==
    {s \in SeqsUpTo(Adapters, Cardinality(Adapters)) :
        \A i, j \in 1..Len(s) : i # j => s[i] # s[j]}

\* instance.enumerate_adapters(backends)
RECURSIVE enumerate_adapters(_, _)
enumerate_adapters(all, backends) ==
    IF all = <<>> THEN <<>>
    ELSE (IF BackendOf(Head(all)) \in backends THEN <<Head(all)>> ELSE <<>>)
         \o enumerate_adapters(Tail(all), backends)

\* The state in which create has not run yet.
CreateStart ==
    /\ createPc = "enumerate"
    /\ available_adapters = <<>>
    /\ adapter = "none"
    /\ device = "none"
    /\ queue = "none"
    /\ capabilities = <<>>
    /\ target_format = "none"
    /\ calls = <<>>
    /\ createResult = [tag |-> "Pending", val |-> "none"]

CreateInit ==
    /\ target \in {"native", "wasm32"}
    /\ wgpu_setup \in WgpuSetups
    /\ system_adapters \in AdapterLists
    /\ surface_formats \in SeqsUpTo(TextureFormats, MaxFormats)
    /\ CreateStart

\* `let available_adapters = { .. }` (native only; "always an empty list on
\* web"): the backends are the configured ones in CreateNew mode and
\* Backends::all() otherwise.
CreateEnumerateAdapters ==
    /\ createPc = "enumerate"
    /\ IF target = "native"
       THEN LET backends == IF wgpu_setup.mode = "CreateNew"
                            THEN wgpu_setup.supported_backends
                            ELSE AllBackends
            IN /\ available_adapters' = enumerate_adapters(system_adapters, backends)
               /\ calls' = Append(calls, [op |-> "enumerate_adapters",
                                          backends |-> backends])
       ELSE UNCHANGED <<available_adapters, calls>>
    /\ createPc' = "setup"
    /\ UNCHANGED <<target, wgpu_setup, system_adapters, surface_formats, adapter,
                   device, queue, capabilities, target_format, createResult>>
    /\ UNCHANGED <<depthVars, policyVars, frameVars>>

\* A variant that falls back on the power-preference request when the
\* selector fails.
CreateSelectAdapter_Fallback ==
    /\ createPc = "setup"
    /\ wgpu_setup.mode = "CreateNew"
    /\ target = "native"
    /\ wgpu_setup.native_adapter_selector.tag = "Some"
    /\ LET r == wgpu_setup.native_adapter_selector.val
           called == Append(calls, [op |-> "native_adapter_selector",
                                    adapters |-> available_adapters,
                                    surface |-> "Some(surface)"])
       IN IF r.tag = "Ok"
          THEN /\ adapter' = r.val
               /\ calls' = called
               /\ createPc' = "request_device"
               /\ UNCHANGED createResult
          ELSE /\ calls' = Append(called,
                               [op |-> "request_adapter",
                                power_preference |-> wgpu_setup.power_preference,
                                compatible_surface |-> "Some(surface)",
                                force_fallback_adapter |-> FALSE])
               /\ \E a \in Range(system_adapters) :
                     /\ adapter' = a
                     /\ createPc' = "request_device"
               /\ UNCHANGED createResult
    /\ UNCHANGED <<target, wgpu_setup, system_adapters, surface_formats,
                   available_adapters, device, queue, capabilities, target_format>>
    /\ UNCHANGED <<depthVars, policyVars, frameVars>>

\* CreateNew on native with a selector: native_adapter_selector(
\* &available_adapters, Some(surface)).map_err(NoSuitableAdapterFound)?
CreateSelectAdapter ==
    /\ createPc = "setup"
    /\ wgpu_setup.mode = "CreateNew"
    /\ target = "native"
    /\ wgpu_setup.native_adapter_selector.tag = "Some"
    /\ calls' = Append(calls, [op |-> "native_adapter_selector",
                               adapters |-> available_adapters,
                               surface |-> "Some(surface)"])
    /\ LET r == wgpu_setup.native_adapter_selector.val
       IN IF r.tag = "Ok"
          THEN /\ adapter' = r.val
               /\ createPc' = "request_device"
               /\ UNCHANGED createResult
          ELSE /\ createResult' = Err([kind |-> "NoSuitableAdapterFound",
                                       detail |-> r.val])
               /\ createPc' = "done"
               /\ UNCHANGED adapter
    /\ UNCHANGED <<target, wgpu_setup, system_adapters, surface_formats,
                   available_adapters, device, queue, capabilities, target_format>>
    /\ UNCHANGED <<depthVars, policyVars, frameVars>>

\* CreateNew without a selector, or on web: request_adapter(instance,
\* power_preference, surface, &available_adapters).await?  The instance
\* answers with one of its adapters or with None.
CreateRequestAdapter ==
    /\ createPc = "setup"
    /\ wgpu_setup.mode = "CreateNew"
    /\ \/ target = "wasm32"
       \/ wgpu_setup.native_adapter_selector.tag = "None"
    /\ calls' = Append(calls, [op |-> "request_adapter",
                               power_preference |-> wgpu_setup.power_preference,
                               compatible_surface |-> "Some(surface)",
                               force_fallback_adapter |-> FALSE])
    /\ \E a \in {"none"} \cup Range(system_adapters) :
          IF a = "none"
          THEN /\ createResult' = Err([kind |-> "NoSuitableAdapterFound",
                                       detail |-> "request_adapters returned None"])
               /\ createPc' = "done"
               /\ UNCHANGED adapter
          ELSE /\ adapter' = a
               /\ createPc' = "request_device"
               /\ UNCHANGED createResult
    /\ UNCHANGED <<target, wgpu_setup, system_adapters, surface_formats,
                   available_adapters, device, queue, capabilities, target_format>>
    /\ UNCHANGED <<depthVars, policyVars, frameVars>>

\* A variant of the device request that notes a refusal and goes on to the
\* format query.
CreateRequestDevice_GoesOn ==
    /\ createPc = "request_device"
    /\ calls' = calls \o <<[op |-> "device_descriptor", adapter |-> adapter],
                           [op |-> "request_device", adapter |-> adapter]>>
    /\ \E granted \in BOOLEAN :
          IF granted
          THEN /\ device' = DeviceOf(adapter)
               /\ queue' = QueueOf(adapter)
               /\ UNCHANGED createResult
          ELSE /\ createResult' = Err([kind |-> "RequestDeviceError",
                                       detail |-> "request_device failed"])
               /\ UNCHANGED <<device, queue>>
    /\ createPc' = "get_capabilities"
    /\ UNCHANGED <<target, wgpu_setup, system_adapters, surface_formats,
                   available_adapters, adapter, capabilities, target_format>>
    /\ UNCHANGED <<depthVars, policyVars, frameVars>>

\* adapter.request_device(&(*device_descriptor)(&adapter), trace_path).await?
\* The driver grants the device and its queue, or refuses.
CreateRequestDevice ==
    /\ createPc = "request_device"
    /\ calls' = calls \o <<[op |-> "device_descriptor", adapter |-> adapter],
                           [op |-> "request_device", adapter |-> adapter]>>
    /\ \E granted \in BOOLEAN :
          IF granted
          THEN /\ device' = DeviceOf(adapter)
               /\ queue' = QueueOf(adapter)
               /\ createPc' = "get_capabilities"
               /\ UNCHANGED createResult
          ELSE /\ createResult' = Err([kind |-> "RequestDeviceError",
                                       detail |-> "request_device failed"])
               /\ createPc' = "done"
               /\ UNCHANGED <<device, queue>>
    /\ UNCHANGED <<target, wgpu_setup, system_adapters, surface_formats,
                   available_adapters, adapter, capabilities, target_format>>
    /\ UNCHANGED <<depthVars, policyVars, frameVars>>

\* A variant of the Existing arm that requests a fresh device from the given
\* adapter instead of taking the caller's device and queue.
CreateExisting_Rerequest ==
    /\ createPc = "setup"
    /\ wgpu_setup.mode = "Existing"
    /\ adapter' = wgpu_setup.adapter
    /\ device' = DeviceOf(wgpu_setup.adapter)
    /\ queue' = QueueOf(wgpu_setup.adapter)
    /\ calls' = Append(calls, [op |-> "request_device",
                               adapter |-> wgpu_setup.adapter])
    /\ createPc' = "get_capabilities"
    /\ UNCHANGED <<target, wgpu_setup, system_adapters, surface_formats,
                   available_adapters, capabilities, target_format, createResult>>
    /\ UNCHANGED <<depthVars, policyVars, frameVars>>

\* WgpuSetup::Existing { instance: _, adapter, device, queue } =>
\* (adapter, device, queue)
CreateExisting ==
    /\ createPc = "setup"
    /\ wgpu_setup.mode = "Existing"
    /\ adapter' = wgpu_setup.adapter
    /\ device' = wgpu_setup.device
    /\ queue' = wgpu_setup.queue
    /\ createPc' = "get_capabilities"
    /\ UNCHANGED <<target, wgpu_setup, system_adapters, surface_formats,
                   available_adapters, capabilities, target_format, calls,
                   createResult>>
    /\ UNCHANGED <<depthVars, policyVars, frameVars>>

\* surface.get_capabilities(&adapter).formats, then
\* preferred_framebuffer_format(&capabilities)?
CreateGetCapabilities ==
    /\ createPc = "get_capabilities"
    /\ capabilities' = surface_formats
    /\ calls' = Append(calls, [op |-> "get_capabilities", adapter |-> adapter])
    /\ LET r == preferred_framebuffer_format(surface_formats)
       IN IF r.tag = "Ok"
          THEN /\ target_format' = r.val
               /\ createPc' = "renderer"
               /\ UNCHANGED createResult
          ELSE /\ createResult' = Err([kind |-> r.val, detail |-> ""])
               /\ createPc' = "done"
               /\ UNCHANGED target_format
    /\ UNCHANGED <<target, wgpu_setup, system_adapters, surface_formats,
                   available_adapters, adapter, device, queue>>
    /\ UNCHANGED <<depthVars, policyVars, frameVars>>

\* Renderer::new(&device, target_format, ..) and Ok(Self { .. })
CreateRenderer ==
    /\ createPc = "renderer"
    /\ calls' = Append(calls, [op |-> "Renderer::new", device |-> device,
                               target_format |-> target_format])
    /\ createResult' = Ok([adapter |-> adapter,
                           available_adapters |-> available_adapters,
                           device |-> device,
                           queue |-> queue,
                           target_format |-> target_format,
                           renderer |-> "Arc<RwLock<Renderer>>"])
    /\ createPc' = "done"
    /\ UNCHANGED <<target, wgpu_setup, system_adapters, surface_formats,
                   available_adapters, adapter, device, queue, capabilities,
                   target_format>>
    /\ UNCHANGED <<depthVars, policyVars, frameVars>>

\* The other components at rest while create runs.
DepthIdle ==
    /\ depth_buffer = 0
    /\ stencil_buffer = 0
    /\ depth_format = [tag |-> "Pending", val |-> "none"]

PolicyIdle ==
    /\ surface_errors = <<>>
    /\ surface_actions = <<>>
    /\ warnings = <<>>

NoDelta == [set |-> {}, free |-> {}]

NoTexture == [size |-> <<0, 0>>, content |-> "none"]

NoImage == [size |-> <<0, 0>>, frame |-> 0]

\* The test renderers at rest, nothing called yet.
FrameStart ==
    /\ renderer_lock = "free"
    /\ textures = {}
    /\ submitted = <<>>
    /\ completed = 0
    /\ pc = [c \in Contexts |-> "idle"]
    /\ delta = [c \in Contexts |-> NoDelta]
    /\ frame_no = [c \in Contexts |-> 0]
    /\ encoder = [c \in Contexts |-> "none"]
    /\ screen = [c \in Contexts |-> <<0, 0>>]
    /\ user_buffers = [c \in Contexts |-> <<>>]
    /\ texture = [c \in Contexts |-> NoTexture]
    /\ image = [c \in Contexts |-> NoImage]
    /\ free_requested = [c \in Contexts |-> {}]
    /\ synced = [c \in Contexts |-> FALSE]
    /\ renderer_ops = <<>>
    /\ passes = [c \in Contexts |-> <<>>]

\* No WgpuTestRenderer exists yet.
FrameIdle ==
    /\ budget = [c \in Contexts |-> 0]
    /\ FrameStart

Init == CreateInit /\ DepthIdle /\ PolicyIdle /\ FrameIdle

Next ==
    \/ CreateEnumerateAdapters
    \/ CreateSelectAdapter
    \/ CreateRequestAdapter
    \/ CreateRequestDevice
    \/ CreateExisting
    \/ CreateGetCapabilities
    \/ CreateRenderer

\* RenderState::create, under every configuration and every answer of the
\* instance, the driver and the surface.
Spec == Init /\ [][Next]_vars

\* RenderState::create not yet called, under WgpuSetup::default().
CreateIdle ==
    /\ target = "native"
    /\ wgpu_setup = CreateNew(AllBackends, "HighPerformance", None)
    /\ system_adapters = <<"a1", "a2">>
    /\ surface_formats = <<"Bgra8Unorm", "Rgba8Unorm">>
    /\ CreateStart

\* ----------------------------------------------------- depth_format_from_bits

DepthInit ==
    /\ depth_buffer \in 0..U8Max
    /\ stencil_buffer \in 0..U8Max
    /\ depth_format = [tag |-> "Pending", val |-> "none"]

\* A call of depth_format_from_bits(depth_buffer, stencil_buffer).
CallDepthFormatFromBits ==
    /\ depth_format.tag = "Pending"
    /\ depth_format' = depth_format_from_bits(depth_buffer, stencil_buffer)
    /\ UNCHANGED <<depth_buffer, stencil_buffer>>
    /\ UNCHANGED <<createVars, policyVars, frameVars>>

InitDepth == CreateIdle /\ DepthInit /\ PolicyIdle /\ FrameIdle

NextDepth == CallDepthFormatFromBits

\* depth_format_from_bits on every pair of u8 arguments.
SpecDepth == InitDepth /\ [][NextDepth]_vars

\* ------------------------------------------------- the surface-error policy

\* The presentation layer hands an error to config.on_surface_error, here
\* the default callback.
CallOnSurfaceError ==
    /\ Len(surface_errors) < MaxSurfaceErrors
    /\ \E err \in SurfaceErrors :
          LET r == default_on_surface_error(err)
          IN /\ surface_errors' = Append(surface_errors, err)
             /\ surface_actions' = Append(surface_actions, r.action)
             /\ warnings' = IF r.warned
                             THEN Append(warnings, [level |-> "warn", err |-> err])
                             ELSE warnings
    /\ UNCHANGED <<createVars, depthVars, frameVars>>

InitPolicy == CreateIdle /\ DepthIdle /\ PolicyIdle /\ FrameIdle

NextPolicy == CallOnSurfaceError

\* The default on_surface_error callback on every sequence of errors.
SpecPolicy == InitPolicy /\ [][NextPolicy]_vars

\* ------------------------------------------------------- WgpuTestRenderer

\* create_render_state(default_wgpu_setup()) has returned: the state in which
\* RenderState::create ended with Ok under the test renderer's setup.
Created ==
    /\ target = "native"
    /\ wgpu_setup = CreateNew(AllBackends, "None", None)
    /\ system_adapters = <<"a1", "a2">>
    /\ surface_formats = <<"Bgra8Unorm", "Rgba8Unorm">>
    /\ createPc = "done"
    /\ available_adapters = <<"a1", "a2">>
    /\ adapter = "a1"
    /\ device = "d1"
    /\ queue = "q1"
    /\ capabilities = <<"Bgra8Unorm", "Rgba8Unorm">>
    /\ target_format = "Bgra8Unorm"
    /\ calls = <<[op |-> "enumerate_adapters", backends |-> AllBackends],
                 [op |-> "request_adapter", power_preference |-> "None",
                  compatible_surface |-> "Some(surface)",
                  force_fallback_adapter |-> FALSE],
                 [op |-> "device_descriptor", adapter |-> "a1"],
                 [op |-> "request_device", adapter |-> "a1"],
                 [op |-> "get_capabilities", adapter |-> "a1"],
                 [op |-> "Renderer::new", device |-> "d1",
                  target_format |-> "Bgra8Unorm"]>>
    /\ createResult = Ok([adapter |-> "a1",
                          available_adapters |-> <<"a1", "a2">>,
                          device |-> "d1",
                          queue |-> "q1",
                          target_format |-> "Bgra8Unorm",
                          renderer |-> "Arc<RwLock<Renderer>>"])

\* The values of egui::TexturesDelta: the ids to set and the ids to free.
TexturesDeltas == [set : SUBSET TextureIds, free : SUBSET TextureIds]

\* The harness calls handle_delta(&delta).
HandleDeltaCall(c) ==
    /\ pc[c] = "idle"
    /\ budget[c] > 0
    /\ budget' = [budget EXCEPT ![c] = @ - 1]
    /\ \E d \in TexturesDeltas :
          /\ delta' = [delta EXCEPT ![c] = d]
          /\ free_requested' = [free_requested EXCEPT ![c] = d.free]
    /\ synced' = [synced EXCEPT ![c] = FALSE]
    /\ pc' = [pc EXCEPT ![c] = "hd_write"]
    /\ UNCHANGED <<passes, renderer_ops, renderer_lock, textures, submitted,
                   completed, frame_no, encoder, screen, user_buffers,
                   texture, image>>
    /\ UNCHANGED <<createVars, depthVars, policyVars>>

\* A variant of the acquisition that does not wait for the guard to be free.
HandleDeltaWrite_NoWait(c) ==
    /\ pc[c] = "hd_write"
    /\ renderer_lock' = c
    /\ pc' = [pc EXCEPT ![c] = "hd_update"]
    /\ UNCHANGED <<passes, renderer_ops, textures, submitted, completed,
                   budget, delta, frame_no, encoder, screen, user_buffers,
                   texture, image, free_requested, synced>>
    /\ UNCHANGED <<createVars, depthVars, policyVars>>

\* handle_delta: let mut renderer = self.render_state.renderer.write();
HandleDeltaWrite(c) ==
    /\ pc[c] = "hd_write"
    /\ renderer_lock = "free"
    /\ renderer_lock' = c
    /\ pc' = [pc EXCEPT ![c] = "hd_update"]
    /\ UNCHANGED <<passes, renderer_ops, textures, submitted, completed,
                   budget, delta, frame_no, encoder, screen, user_buffers,
                   texture, image, free_requested, synced>>
    /\ UNCHANGED <<createVars, depthVars, policyVars>>

\* An entry of renderer_ops: the context, the frame the call belongs to, the
\* call (named by the budget left when it was made) and the method called.
RendererOp(c, f, op) == [ctx |-> c, frame |-> f, call |-> budget[c], op |-> op]

\* handle_delta: for (id, image) in &delta.set { renderer.update_texture(..) }
\* One turn of the loop, or its end; the ids left to visit are those still in
\* delta[c].set.  The ids of delta.free are not looked at.  An id set again by
\* another context is no longer one whose release is due.
HandleDeltaUpdate(c) ==
    /\ pc[c] = "hd_update"
    /\ IF delta[c].set = {}
       THEN /\ pc' = [pc EXCEPT ![c] = "hd_return"]
            /\ UNCHANGED <<textures, free_requested, delta, renderer_ops>>
       ELSE \E id \in delta[c].set :
               /\ textures' = textures \cup {id}
               /\ free_requested' = [k \in Contexts |->
                                       IF k = c THEN free_requested[k]
                                       ELSE free_requested[k] \ {id}]
               /\ delta' = [delta EXCEPT ![c].set = @ \ {id}]
               /\ renderer_ops' = Append(renderer_ops,
                                     RendererOp(c, frame_no[c] + 1, "update_texture"))
               /\ UNCHANGED pc
    /\ UNCHANGED <<passes, renderer_lock, submitted, completed, budget,
                   frame_no, encoder, screen, user_buffers, texture, image,
                   synced>>
    /\ UNCHANGED <<createVars, depthVars, policyVars>>

\* A variant of the return in which the write guard outlives the call.
HandleDeltaReturn_KeepGuard(c) ==
    /\ pc[c] = "hd_return"
    /\ delta' = [delta EXCEPT ![c] = NoDelta]
    /\ pc' = [pc EXCEPT ![c] = "idle"]
    /\ UNCHANGED <<passes, renderer_ops, renderer_lock, textures, submitted,
                   completed, budget, frame_no, encoder, screen, user_buffers,
                   texture, image, free_requested, synced>>
    /\ UNCHANGED <<createVars, depthVars, policyVars>>

\* handle_delta returns: the write guard is dropped.
HandleDeltaReturn(c) ==
    /\ pc[c] = "hd_return"
    /\ renderer_lock' = "free"
    /\ delta' = [delta EXCEPT ![c] = NoDelta]
    /\ pc' = [pc EXCEPT ![c] = "idle"]
    /\ UNCHANGED <<passes, renderer_ops, textures, submitted, completed,
                   budget, frame_no, encoder, screen, user_buffers, texture,
                   image, free_requested, synced>>
    /\ UNCHANGED <<createVars, depthVars, policyVars>>

\* The harness calls render(ctx, output).
RenderCall(c) ==
    /\ pc[c] = "idle"
    /\ budget[c] > 0
    /\ budget' = [budget EXCEPT ![c] = @ - 1]
    /\ frame_no' = [frame_no EXCEPT ![c] = @ + 1]
    /\ pc' = [pc EXCEPT ![c] = "r_write"]
    /\ UNCHANGED <<passes, renderer_ops, renderer_lock, textures, submitted,
                   completed, delta, encoder, screen, user_buffers, texture,
                   image, free_requested, synced>>
    /\ UNCHANGED <<createVars, depthVars, policyVars>>

\* render: let mut renderer = self.render_state.renderer.write();
RenderWrite(c) ==
    /\ pc[c] = "r_write"
    /\ renderer_lock = "free"
    /\ renderer_lock' = c
    /\ pc' = [pc EXCEPT ![c] = "r_encoder"]
    /\ UNCHANGED <<passes, renderer_ops, textures, submitted, completed,
                   budget, delta, frame_no, encoder, screen, user_buffers,
                   texture, image, free_requested, synced>>
    /\ UNCHANGED <<createVars, depthVars, policyVars>>

\* render: device.create_command_encoder(..)
RenderCreateEncoder(c) ==
    /\ pc[c] = "r_encoder"
    /\ encoder' = [encoder EXCEPT ![c] = "recording"]
    /\ pc' = [pc EXCEPT ![c] = "r_update_buffers"]
    /\ UNCHANGED <<passes, renderer_ops, renderer_lock, textures, submitted,
                   completed, budget, delta, frame_no, screen, user_buffers,
                   texture, image, free_requested, synced>>
    /\ UNCHANGED <<createVars, depthVars, policyVars>>

\* The command buffers update_buffers returns for a frame, n of them.
UserBuffers(c, n) ==
    [i \in 1..n |-> [kind |-> "user", ctx |-> c, frame |-> frame_no[c]]]

\* render: the ScreenDescriptor, ctx.tessellate(..), and
\* renderer.update_buffers(device, queue, &mut encoder, &tessellated, &screen)
RenderUpdateBuffers(c) ==
    /\ pc[c] = "r_update_buffers"
    /\ \E size \in ScreenSizes : screen' = [screen EXCEPT ![c] = size]
    /\ \E n \in 0..MaxUserBuffers :
          user_buffers' = [user_buffers EXCEPT ![c] = UserBuffers(c, n)]
    /\ renderer_ops' = Append(renderer_ops,
                          RendererOp(c, frame_no[c], "update_buffers"))
    /\ pc' = [pc EXCEPT ![c] = "r_texture"]
    /\ UNCHANGED <<passes, renderer_lock, textures, submitted, completed,
                   budget, delta, frame_no, encoder, texture, image,
                   free_requested, synced>>
    /\ UNCHANGED <<createVars, depthVars, policyVars>>

\* render: device.create_texture(..) of the screen's size, and its view
RenderCreateTexture(c) ==
    /\ pc[c] = "r_texture"
    /\ texture' = [texture EXCEPT ![c] = [size |-> screen[c], content |-> "undefined"]]
    /\ pc' = [pc EXCEPT ![c] = "r_begin_pass"]
    /\ UNCHANGED <<passes, renderer_ops, renderer_lock, textures, submitted,
                   completed, budget, delta, frame_no, encoder, screen,
                   user_buffers, image, free_requested, synced>>
    /\ UNCHANGED <<createVars, depthVars, policyVars>>

\* render: encoder.begin_render_pass(..) with LoadOp::Clear(TRANSPARENT) and
\* StoreOp::Store
RenderBeginPass(c) ==
    /\ pc[c] = "r_begin_pass"
    /\ encoder' = [encoder EXCEPT ![c] = "pass_open"]
    /\ passes' = [passes EXCEPT ![c] =
                    Append(@, [view |-> texture[c].size,
                               load |-> "Clear(TRANSPARENT)",
                               store |-> "Store",
                               draws |-> 0,
                               open |-> TRUE])]
    /\ pc' = [pc EXCEPT ![c] = "r_render"]
    /\ UNCHANGED <<renderer_ops, renderer_lock, textures, submitted,
                   completed, budget, delta, frame_no, screen, user_buffers,
                   texture, image, free_requested, synced>>
    /\ UNCHANGED <<createVars, depthVars, policyVars>>

\* render: renderer.render(&mut pass, &tessellated, &screen)
RenderDraw(c) ==
    /\ pc[c] = "r_render"
    /\ encoder' = [encoder EXCEPT ![c] = "pass_drawn"]
    /\ passes' = [passes EXCEPT ![c][Len(passes[c])].draws = @ + 1]
    /\ renderer_ops' = Append(renderer_ops, RendererOp(c, frame_no[c], "render"))
    /\ pc' = [pc EXCEPT ![c] = "r_end_pass"]
    /\ UNCHANGED <<renderer_lock, textures, submitted, completed, budget,
                   delta, frame_no, screen, user_buffers, texture, image,
                   free_requested, synced>>
    /\ UNCHANGED <<createVars, depthVars, policyVars>>

\* render: the block ends and the pass is dropped
RenderEndPass(c) ==
    /\ pc[c] = "r_end_pass"
    /\ encoder' = [encoder EXCEPT ![c] = "pass_closed"]
    /\ passes' = [passes EXCEPT ![c][Len(passes[c])].open = FALSE]
    /\ pc' = [pc EXCEPT ![c] = "r_submit"]
    /\ UNCHANGED <<renderer_ops, renderer_lock, textures, submitted,
                   completed, budget, delta, frame_no, screen, user_buffers,
                   texture, image, free_requested, synced>>
    /\ UNCHANGED <<createVars, depthVars, policyVars>>

\* A variant of the submission that puts the finished encoder first.
Submission_EncoderFirst(c) ==
    <<[kind |-> "encoder", ctx |-> c, frame |-> frame_no[c]]>> \o user_buffers[c]

\* user_buffers.into_iter().chain(once(encoder.finish()))
Submission(c) ==
    user_buffers[c] \o <<[kind |-> "encoder", ctx |-> c, frame |-> frame_no[c]]>>

\* render: queue.submit(user_buffers.into_iter().chain(once(encoder.finish())))
RenderSubmit(c) ==
    /\ pc[c] = "r_submit"
    /\ submitted' = Append(submitted, Submission(c))
    /\ encoder' = [encoder EXCEPT ![c] = "finished"]
    /\ pc' = [pc EXCEPT ![c] = "r_poll"]
    /\ UNCHANGED <<passes, renderer_ops, renderer_lock, textures, completed,
                   budget, delta, frame_no, screen, user_buffers, texture,
                   image, free_requested, synced>>
    /\ UNCHANGED <<createVars, depthVars, policyVars>>

\* A variant of the poll that returns at once (Maintain::Poll), whatever the
\* device has completed.
RenderPoll_NoWait(c) ==
    /\ pc[c] = "r_poll"
    /\ pc' = [pc EXCEPT ![c] = "r_readback"]
    /\ UNCHANGED <<passes, renderer_ops, renderer_lock, textures, submitted,
                   completed, budget, delta, frame_no, encoder, screen,
                   user_buffers, texture, image, free_requested, synced>>
    /\ UNCHANGED <<createVars, depthVars, policyVars>>

\* render: device.poll(Maintain::Wait) returns when the device has completed
\* everything submitted.
RenderPoll(c) ==
    /\ pc[c] = "r_poll"
    /\ completed' = Len(submitted)
    /\ texture' = [texture EXCEPT ![c].content = "rendered"]
    /\ pc' = [pc EXCEPT ![c] = "r_readback"]
    /\ UNCHANGED <<passes, renderer_ops, renderer_lock, textures, submitted,
                   budget, delta, frame_no, encoder, screen, user_buffers,
                   image, free_requested, synced>>
    /\ UNCHANGED <<createVars, depthVars, policyVars>>

\* render: texture_to_image(device, queue, &texture)
RenderReadback(c) ==
    /\ pc[c] = "r_readback"
    /\ image' = [image EXCEPT ![c] = [size |-> texture[c].size, frame |-> frame_no[c]]]
    /\ pc' = [pc EXCEPT ![c] = "r_return"]
    /\ UNCHANGED <<passes, renderer_ops, renderer_lock, textures, submitted,
                   completed, budget, delta, frame_no, encoder, screen,
                   user_buffers, texture, free_requested, synced>>
    /\ UNCHANGED <<createVars, depthVars, policyVars>>

\* render returns Ok(image): its locals and the write guard are dropped.
RenderReturn(c) ==
    /\ pc[c] = "r_return"
    /\ renderer_lock' = "free"
    /\ encoder' = [encoder EXCEPT ![c] = "none"]
    /\ passes' = [passes EXCEPT ![c] = <<>>]
    /\ screen' = [screen EXCEPT ![c] = <<0, 0>>]
    /\ user_buffers' = [user_buffers EXCEPT ![c] = <<>>]
    /\ texture' = [texture EXCEPT ![c] = NoTexture]
    /\ image' = [image EXCEPT ![c] = NoImage]
    /\ synced' = [synced EXCEPT ![c] = TRUE]
    /\ pc' = [pc EXCEPT ![c] = "idle"]
    /\ UNCHANGED <<renderer_ops, textures, submitted, completed, budget,
                   delta, frame_no, free_requested>>
    /\ UNCHANGED <<createVars, depthVars, policyVars>>

\* One test renderer, called up to MaxCalls times.
FrameInit ==
    /\ budget = [c \in Contexts |-> IF c = "A" THEN MaxCalls ELSE 0]
    /\ FrameStart

InitFrame == Created /\ DepthIdle /\ PolicyIdle /\ FrameInit

NextFrame ==
    \E c \in Contexts :
        \/ HandleDeltaCall(c)
        \/ HandleDeltaWrite(c)
        \/ HandleDeltaUpdate(c)
        \/ HandleDeltaReturn(c)
        \/ RenderCall(c)
        \/ RenderWrite(c)
        \/ RenderCreateEncoder(c)
        \/ RenderUpdateBuffers(c)
        \/ RenderCreateTexture(c)
        \/ RenderBeginPass(c)
        \/ RenderDraw(c)
        \/ RenderEndPass(c)
        \/ RenderSubmit(c)
        \/ RenderPoll(c)
        \/ RenderReadback(c)
        \/ RenderReturn(c)

\* A test renderer receiving calls of handle_delta and render in any order.
SpecFrame == InitFrame /\ [][NextFrame]_vars

\* ------------------------------------- test renderers sharing a RenderState

\* Two contexts whose render_state is a clone of one RenderState: one
\* called up to MaxSharedCalls times, the other once.
SharedInit ==
    /\ budget = [c \in Contexts |-> IF c = "A" THEN MaxSharedCalls ELSE 1]
    /\ FrameStart

InitShared == Created /\ DepthIdle /\ PolicyIdle /\ SharedInit

\* Two test renderers on one RenderState, their calls interleaved in any way.
SpecShared == InitShared /\ [][NextFrame]_vars

\* The same two contexts contending for the Renderer: one called up to
\* MaxGuardCalls times, the other once.
GuardInit ==
    /\ budget = [c \in Contexts |-> IF c = "A" THEN MaxGuardCalls ELSE 1]
    /\ FrameStart

InitGuard == Created /\ DepthIdle /\ PolicyIdle /\ GuardInit

\* renderer.write() returning to a context that waits for it.
Acquire(c) == HandleDeltaWrite(c) \/ RenderWrite(c)

\* The steps a context takes by itself once it is inside a call, from the
\* statement after renderer.write() to the return.
Proceed(c) ==
    \/ HandleDeltaUpdate(c)
    \/ HandleDeltaReturn(c)
    \/ RenderCreateEncoder(c)
    \/ RenderUpdateBuffers(c)
    \/ RenderCreateTexture(c)
    \/ RenderBeginPass(c)
    \/ RenderDraw(c)
    \/ RenderEndPass(c)
    \/ RenderSubmit(c)
    \/ RenderPoll(c)
    \/ RenderReadback(c)
    \/ RenderReturn(c)

\* A thread inside handle_delta or render goes on running, and
\* renderer.write() (epaint::mutex::RwLock, a parking_lot lock) returns to a
\* waiting thread once the guard stays free.
FairGuard ==
    \A c \in Contexts : WF_vars(Acquire(c) \/ Proceed(c))

\* Two test renderers contending for the Renderer of one RenderState, under
\* a scheduler that lets every thread run.
SpecGuard == InitGuard /\ [][NextFrame]_vars /\ FairGuard

\* ------------------------------------------------- properties of create

Preferred == {"Rgba8Unorm", "Bgra8Unorm"}

\* create has asked the surface for its formats.
FormatQueried == \E i \in 1..Len(calls) : calls[i].op = "get_capabilities"

\* preferred_framebuffer_format has returned a format to create.
FormatChosen == target_format # "none"

HasCall(ops) == \E i \in 1..Len(calls) : calls[i].op \in ops

\* C1, as stated: whenever the reported list holds both Rgba8Unorm and
\* Bgra8Unorm, the format chosen is Rgba8Unorm, whatever their order.
C1_RgbaWheneverBoth ==
    (FormatChosen /\ Preferred \subseteq Range(capabilities))
        => target_format = "Rgba8Unorm"

\* C1, amended: whenever the reported list holds both Rgba8Unorm and
\* Bgra8Unorm, the format chosen is whichever of the two comes first in the
\* list, so it is Rgba8Unorm exactly when Rgba8Unorm comes before Bgra8Unorm.
C1_FirstOfTheTwo ==
    (FormatChosen /\ Preferred \subseteq Range(capabilities))
        => /\ \E i \in 1..Len(capabilities) :
                /\ capabilities[i] = target_format
                /\ target_format \in Preferred
                /\ \A j \in 1..(i - 1) : capabilities[j] \notin Preferred
           /\ (target_format = "Rgba8Unorm") <=>
                \E i \in 1..Len(capabilities) :
                    /\ capabilities[i] = "Rgba8Unorm"
                    /\ \A j \in 1..(i - 1) : capabilities[j] # "Bgra8Unorm"

C1_Witness ==
    /\ FormatChosen
    /\ capabilities = <<"Rgba16Float", "Bgra8Unorm", "Rgba8Unorm">>
    /\ target_format = "Bgra8Unorm"

\* C2: for a nonempty reported list the format chosen is an element of the
\* list, and one of Rgba8Unorm, Bgra8Unorm whenever the list holds one of
\* them; the target_format of a returned RenderState is one of the formats
\* the surface reported for the state's adapter.
C2_TargetFormatSupported ==
    /\ (FormatQueried /\ capabilities # <<>>)
        => /\ FormatChosen
           /\ target_format \in Range(capabilities)
           /\ (Range(capabilities) \cap Preferred # {})
                => target_format \in Preferred
    /\ createResult.tag = "Ok"
        => /\ createResult.val.target_format \in Range(surface_formats)
           /\ capabilities = surface_formats
           /\ \E i \in 1..Len(calls) :
                /\ calls[i].op = "get_capabilities"
                /\ calls[i].adapter = createResult.val.adapter

C2_Witness ==
    /\ createResult.tag = "Ok"
    /\ capabilities = <<"Rgba16Float", "Bgra8Unorm">>
    /\ createResult.val.target_format = "Bgra8Unorm"

\* C3: for a nonempty reported list that holds neither Rgba8Unorm nor
\* Bgra8Unorm the format chosen is the first element of the list; this makes
\* the result a function of the list alone.
C3_FallbackIsFirst ==
    (FormatQueried /\ capabilities # <<>> /\ Range(capabilities) \cap Preferred = {})
        => target_format = capabilities[1]

C3_Witness ==
    /\ FormatChosen
    /\ capabilities = <<"Rgba16Float", "Rgba8UnormSrgb">>
    /\ target_format = "Rgba16Float"

\* C4: the format choice fails exactly on the empty list, with
\* NoSurfaceFormatsAvailable; create then ends with that error, having
\* constructed no Renderer and returning no RenderState.
C4_EmptyListFails ==
    /\ (FormatQueried /\ capabilities = <<>>)
        => /\ createPc = "done"
           /\ createResult.tag = "Err"
           /\ createResult.val.kind = "NoSurfaceFormatsAvailable"
           /\ ~FormatChosen
           /\ ~HasCall({"Renderer::new"})
    /\ (FormatQueried /\ capabilities # <<>>)
        => /\ FormatChosen
           /\ createResult.tag # "Err"
    /\ (createResult.tag = "Err"
            /\ createResult.val.kind = "NoSurfaceFormatsAvailable")
        => (FormatQueried /\ capabilities = <<>>)

C4_Witness ==
    /\ FormatQueried
    /\ surface_formats = <<>>
    /\ createPc = "done"
    /\ createResult.tag = "Err"
    /\ createResult.val.kind = "NoSurfaceFormatsAvailable"

\* CreateNew on a native target with a custom adapter selector.
SelectorCase ==
    /\ wgpu_setup.mode = "CreateNew"
    /\ target = "native"
    /\ wgpu_setup.native_adapter_selector.tag = "Some"

\* C7: with a custom selector on native, create calls the selector once,
\* with the enumerated adapters and the surface, and never requests an
\* adapter by power preference; a selector failure s ends create with
\* NoSuitableAdapterFound(s) before any device request, format query or
\* Renderer construction.
C7_SelectorTakesPrecedence ==
    SelectorCase =>
        /\ ~HasCall({"request_adapter"})
        /\ createPc \notin {"enumerate", "setup"}
            => /\ calls[1] = [op |-> "enumerate_adapters",
                              backends |-> wgpu_setup.supported_backends]
               /\ calls[2] = [op |-> "native_adapter_selector",
                              adapters |-> enumerate_adapters(system_adapters,
                                              wgpu_setup.supported_backends),
                              surface |-> "Some(surface)"]
               /\ \A i \in 3..Len(calls) : calls[i].op # "native_adapter_selector"
        /\ (createPc \notin {"enumerate", "setup"}
                /\ wgpu_setup.native_adapter_selector.val.tag = "Err")
            => /\ createPc = "done"
               /\ createResult =
                    Err([kind |-> "NoSuitableAdapterFound",
                         detail |-> wgpu_setup.native_adapter_selector.val.val])
               /\ ~HasCall({"device_descriptor", "request_device",
                            "get_capabilities", "Renderer::new"})

C7_Witness ==
    /\ SelectorCase
    /\ createPc = "done"
    /\ Len(calls) = 2
    /\ createResult.tag = "Err"
    /\ createResult.val.detail = "unsupported"

\* C8, as stated: in Existing mode create makes no adapter enumeration, no
\* adapter request, no selector call and no device request, and returns the
\* caller's handles.
C8_ExistingSkipsEverything ==
    wgpu_setup.mode = "Existing" =>
        /\ ~HasCall({"enumerate_adapters", "request_adapter",
                     "native_adapter_selector", "device_descriptor",
                     "request_device"})
        /\ createResult.tag = "Ok"
            => /\ createResult.val.adapter = wgpu_setup.adapter
               /\ createResult.val.device = wgpu_setup.device
               /\ createResult.val.queue = wgpu_setup.queue

\* C8, amended: in Existing mode create makes no adapter request, no selector
\* call and no device request, and the returned handles are the caller's,
\* accepted unvalidated; on a native target it still enumerates the adapters
\* of all backends first, to fill available_adapters.
C8_ExistingTakesHandles ==
    wgpu_setup.mode = "Existing" =>
        /\ ~HasCall({"request_adapter", "native_adapter_selector",
                     "device_descriptor", "request_device"})
        /\ (target = "native" /\ createPc # "enumerate")
            => /\ calls[1] = [op |-> "enumerate_adapters", backends |-> AllBackends]
               /\ available_adapters = system_adapters
        /\ target = "wasm32" => ~HasCall({"enumerate_adapters"})
        /\ createPc \notin {"enumerate", "setup"}
            => /\ adapter = wgpu_setup.adapter
               /\ device = wgpu_setup.device
               /\ queue = wgpu_setup.queue
        /\ createResult.tag = "Ok"
            => /\ createResult.val.adapter = wgpu_setup.adapter
               /\ createResult.val.device = wgpu_setup.device
               /\ createResult.val.queue = wgpu_setup.queue
        /\ (createPc = "done" /\ surface_formats # <<>>) => createResult.tag = "Ok"

C8_Witness ==
    /\ wgpu_setup.mode = "Existing"
    /\ target = "native"
    /\ createResult.tag = "Ok"
    /\ createResult.val.device = "d2"
    /\ createResult.val.adapter = "a1"
    /\ HasCall({"enumerate_adapters"})

\* The place of a call among the steps of create: enumeration, adapter
\* resolution, descriptor factory, device request, format query, Renderer
\* construction.
StepOf(op) ==
    CASE op = "enumerate_adapters" -> 0
      [] op \in {"native_adapter_selector", "request_adapter"} -> 1
      [] op = "device_descriptor" -> 2
      [] op = "request_device" -> 3
      [] op = "get_capabilities" -> 4
      [] op = "Renderer::new" -> 5

\* The step of the last call create has made, -1 when it has made none.
LastStep == IF calls = <<>> THEN -1 ELSE StepOf(calls[Len(calls)].op)

\* C13: in CreateNew mode the calls of create come in the order adapter
\* resolution, descriptor factory, device request, format query, Renderer
\* construction, none of them twice and none skipped, and the factory and
\* the device request get the adapter just resolved.  create stops at the
\* first failure: after a failed adapter resolution the result is
\* NoSuitableAdapterFound and no device was requested; after a refused device
\* request it is RequestDeviceError and no format was queried; and whenever
\* the result is an error no Renderer was constructed, no RenderState is
\* returned and create takes no further step.
C13_CreateNewStopsAtFirstFailure ==
    wgpu_setup.mode = "CreateNew" =>
        /\ \A i, j \in 1..Len(calls) :
              i < j => StepOf(calls[i].op) < StepOf(calls[j].op)
        /\ \A i \in 2..Len(calls) :
              StepOf(calls[i].op) = StepOf(calls[i - 1].op) + 1
        /\ \A i \in 1..Len(calls) :
              calls[i].op \in {"device_descriptor", "request_device",
                               "get_capabilities"}
                  => /\ calls[i].adapter = adapter
                     /\ adapter # "none"
                     /\ SelectorCase
                          => adapter = wgpu_setup.native_adapter_selector.val.val
        /\ createResult.tag = "Pending" <=> createPc # "done"
        /\ createPc = "done" => ~ENABLED Next
        /\ createResult.tag = "Err"
              => /\ ~HasCall({"Renderer::new"})
                 /\ createResult.val.kind \in
                        {"NoSuitableAdapterFound", "RequestDeviceError",
                         "NoSurfaceFormatsAvailable"}
                 /\ createResult.val.kind = "NoSuitableAdapterFound"
                      <=> (LastStep = 1 /\ adapter = "none")
                 /\ createResult.val.kind = "RequestDeviceError"
                      <=> (LastStep = 3 /\ device = "none")
                 /\ createResult.val.kind = "NoSurfaceFormatsAvailable"
                      <=> LastStep = 4
        /\ createResult.tag = "Ok"
              => /\ LastStep = 5
                 /\ createResult.val.adapter = adapter
                 /\ createResult.val.device = DeviceOf(adapter)
                 /\ createResult.val.queue = QueueOf(adapter)
        /\ HasCall({"Renderer::new"}) => createResult.tag = "Ok"

\* The driver refused the device: create has ended after four calls.
C13_Witness ==
    /\ wgpu_setup.mode = "CreateNew"
    /\ target = "native"
    /\ createPc = "done"
    /\ createResult.tag = "Err"
    /\ createResult.val.kind = "RequestDeviceError"
    /\ Len(calls) = 4
    /\ calls[3] = [op |-> "device_descriptor", adapter |-> "a2"]

\* ------------------------------------------ properties of the pure functions

\* The table C5 states: the six pairs and the format of each.
C5_Table ==
    {<<0, 8, "Stencil8">>, <<16, 0, "Depth16Unorm">>, <<24, 0, "Depth24Plus">>,
     <<24, 8, "Depth24PlusStencil8">>, <<32, 0, "Depth32Float">>,
     <<32, 8, "Depth32FloatStencil8">>}

\* C5: depth_format_from_bits answers on every pair of u8 values; a pair of
\* the table gets the table's format, the six formats are pairwise distinct,
\* and every other pair, (0,0) and (8,8) included, gets none.
C5_DepthFormatTable ==
    /\ depth_format.tag = "Pending" => ENABLED CallDepthFormatFromBits
    /\ depth_format.tag # "Pending"
        => /\ depth_format.tag \in {"Some", "None"}
           /\ \A row \in C5_Table :
                (row[1] = depth_buffer /\ row[2] = stencil_buffer)
                    => depth_format = [tag |-> "Some", val |-> row[3]]
           /\ (\A row \in C5_Table :
                    ~(row[1] = depth_buffer /\ row[2] = stencil_buffer))
                => depth_format = None
    /\ Cardinality({row[3] : row \in C5_Table}) = 6
    /\ Cardinality({<<row[1], row[2]>> : row \in C5_Table}) = 6

C5_Witness ==
    /\ depth_buffer = 24
    /\ stencil_buffer = 8
    /\ depth_format = [tag |-> "Some", val |-> "Depth24PlusStencil8"]

\* C6: the default policy answers SkipFrame to every error, never
\* RecreateSurface, and its warnings are exactly the errors other than
\* Outdated, in the order they came.
C6_DefaultPolicySkips ==
    /\ Len(surface_actions) = Len(surface_errors)
    /\ \A i \in 1..Len(surface_actions) : surface_actions[i] = "SkipFrame"
    /\ LET others == SelectSeq(surface_errors, LAMBDA e : e # "Outdated")
       IN /\ Len(warnings) = Len(others)
          /\ \A i \in 1..Len(others) : warnings[i] = [level |-> "warn", err |-> others[i]]

C6_Witness ==
    /\ surface_errors = <<"Outdated", "Lost", "Outdated">>
    /\ surface_actions = <<"SkipFrame", "SkipFrame", "SkipFrame">>
    /\ Len(warnings) = 1

\* ------------------------------------------- properties of the test renderer

\* The frame a submission belongs to: that of its last command buffer.
FrameOf(s) == <<s[Len(s)].ctx, s[Len(s)].frame>>

\* The context's current call of render has submitted its work.
HasSubmitted(c) == pc[c] \in {"r_poll", "r_readback", "r_return"}

\* The context's current call of render has not reached queue.submit.
NotYetSubmitted(c) ==
    pc[c] \in {"r_write", "r_encoder", "r_update_buffers", "r_texture",
               "r_begin_pass", "r_render", "r_end_pass", "r_submit"}

\* The submissions of the context's frame f.
SubmissionsOf(c, f) == {i \in 1..Len(submitted) : FrameOf(submitted[i]) = <<c, f>>}

\* C9: every submission is the frame's user command buffers followed by its
\* finished encoder, which is last; a frame that got as far as the submit has
\* exactly one submission, holding all that update_buffers returned, and a
\* frame that has not has none; the submissions of a context lie in the
\* queue in the order of its frames.
C9_OneOrderedSubmissionPerFrame ==
    /\ \A i \in 1..Len(submitted) :
          LET s == submitted[i]
          IN /\ Len(s) >= 1
             /\ s[Len(s)].kind = "encoder"
             /\ \A k \in 1..(Len(s) - 1) :
                   /\ s[k].kind = "user"
                   /\ <<s[k].ctx, s[k].frame>> = FrameOf(s)
    /\ \A c \in Contexts :
          /\ \A f \in 1..frame_no[c] :
                Cardinality(SubmissionsOf(c, f)) =
                    (IF f = frame_no[c] /\ NotYetSubmitted(c) THEN 0 ELSE 1)
          /\ HasSubmitted(c)
                => submitted[Len(submitted)] =
                     user_buffers[c]
                       \o <<[kind |-> "encoder", ctx |-> c, frame |-> frame_no[c]]>>
    /\ \A i, j \in 1..Len(submitted) :
          (i < j /\ FrameOf(submitted[i])[1] = FrameOf(submitted[j])[1])
              => FrameOf(submitted[i])[2] < FrameOf(submitted[j])[2]
    /\ completed <= Len(submitted)

C9_Witness ==
    /\ Len(submitted) = 2
    /\ Len(submitted[1]) = 3
    /\ FrameOf(submitted[2]) = <<"A", 2>>
    /\ Len(submitted[2]) = 2
    /\ pc["A"] = "idle"

\* The positions of render after renderer.write(), in the order of its
\* statements: at the i-th of them the first i - 1 steps have been done.
RenderPcs ==
    <<"r_encoder", "r_update_buffers", "r_texture", "r_begin_pass", "r_render",
      "r_end_pass", "r_submit", "r_poll", "r_readback", "r_return">>

\* How many of the nine steps (create encoder, update_buffers, create
\* texture, begin pass, renderer.render, end pass, submit, poll, readback)
\* the context's current call of render has done.
StepsDone(c) ==
    IF \E i \in 1..Len(RenderPcs) : RenderPcs[i] = pc[c]
    THEN (CHOOSE i \in 1..Len(RenderPcs) : RenderPcs[i] = pc[c]) - 1
    ELSE 0

\* The positions in renderer_ops of the current call's use of a method.
OpsOf(c, op) ==
    {i \in 1..Len(renderer_ops) : renderer_ops[i] = RendererOp(c, frame_no[c], op)}

\* C14: a call of render does its steps in the order create encoder,
\* update_buffers, create texture, begin pass, renderer.render, end pass,
\* submit, poll, readback.  What each step leaves behind is there exactly
\* from that step on: the encoder; the call of update_buffers; the texture,
\* of the screen's pixel size; exactly one render pass, on that texture, with
\* clear-to-transparent load and store, holding one renderer.render and
\* closed before the submission; one submission of the frame; after the poll
\* all submitted work completed and the texture rendered; and the image,
\* read from that texture, only after the poll has returned.
C14_RenderStepsInOrder ==
    \A c \in Contexts :
        LET n == StepsDone(c)
        IN /\ encoder[c] # "none" <=> n >= 1
           /\ pc[c] \in Range(RenderPcs)
                => /\ Cardinality(OpsOf(c, "update_buffers")) = (IF n >= 2 THEN 1 ELSE 0)
                   /\ Cardinality(OpsOf(c, "render")) = (IF n >= 5 THEN 1 ELSE 0)
                   /\ \A i \in OpsOf(c, "update_buffers"), j \in OpsOf(c, "render") :
                         j = i + 1
                   /\ Cardinality(SubmissionsOf(c, frame_no[c]))
                         = (IF n >= 7 THEN 1 ELSE 0)
           /\ texture[c] # NoTexture <=> n >= 3
           /\ n >= 3
                => /\ screen[c] \in ScreenSizes
                   /\ texture[c].size = screen[c]
                   /\ texture[c].content = (IF n >= 8 THEN "rendered" ELSE "undefined")
           /\ Len(passes[c]) = (IF n >= 4 THEN 1 ELSE 0)
           /\ n >= 4
                => passes[c][1] = [view |-> screen[c],
                                   load |-> "Clear(TRANSPARENT)",
                                   store |-> "Store",
                                   draws |-> IF n >= 5 THEN 1 ELSE 0,
                                   open |-> n < 6]
           /\ n >= 8
                => /\ completed = Len(submitted)
                   /\ \A i \in SubmissionsOf(c, frame_no[c]) : i <= completed
           /\ image[c] # NoImage <=> n >= 9
           /\ n >= 9 => image[c] = [size |-> screen[c], frame |-> frame_no[c]]

\* The second render of the context has read its image back.
C14_Witness ==
    /\ pc["A"] = "r_return"
    /\ frame_no["A"] = 2
    /\ image["A"] = [size |-> <<2, 1>>, frame |-> 2]
    /\ completed = 2
    /\ Len(passes["A"]) = 1

\* C10, as stated: once a render of the context has passed its blocking
\* device.poll and returned, the ids of the free set of the delta handled
\* before it are no longer held by the renderer.
C10_FreedTexturesReleased ==
    \A c \in Contexts :
        (pc[c] = "idle" /\ synced[c]) => free_requested[c] \cap textures = {}

\* ------------------------------- properties of a shared RenderState's Renderer

\* The context waits in renderer.write().
Waiting(c) == pc[c] \in {"hd_write", "r_write"}

\* The context is between renderer.write() and the return of its call.
InsideCall(c) == pc[c] \notin {"idle", "hd_write", "r_write"}

\* C11: the Renderer is touched only under its guard.  At most one context
\* is inside a call past renderer.write(), and that context is the holder of
\* the guard; every call made on the Renderer is made by the holder, who
\* still holds the guard after it; a context that has returned from
\* handle_delta or render, or has not got the guard yet, does not hold it;
\* and a context that waits for the guard eventually holds it.
C11_RendererUnderGuard ==
    /\ [](/\ Cardinality({c \in Contexts : InsideCall(c)}) <= 1
          /\ \A c \in Contexts : InsideCall(c) <=> renderer_lock = c)
    /\ [][renderer_ops' # renderer_ops
            => /\ Len(renderer_ops') = Len(renderer_ops) + 1
               /\ renderer_lock = renderer_ops'[Len(renderer_ops')].ctx
               /\ renderer_lock' = renderer_lock]_vars
    /\ \A c \in Contexts : Waiting(c) ~> (renderer_lock = c)

\* One context waits for the guard while the other records its draw calls.
C11_Witness ==
    /\ pc["A"] = "hd_write"
    /\ pc["B"] = "r_end_pass"
    /\ renderer_lock = "B"
    /\ renderer_ops[Len(renderer_ops)] =
            [ctx |-> "B", frame |-> 1, call |-> budget["B"], op |-> "render"]

\* The calls on the Renderer from position i to position j are all made by
\* one context.
OneContextBetween(i, j) ==
    \A k \in i..j : renderer_ops[k].ctx = renderer_ops[i].ctx

\* C12, as stated: the renderer operations of one frame of a context, from
\* the texture updates of its handle_delta to the draw recording of its
\* render, have no renderer operation of another context between them.
C12_FramesDoNotInterleave ==
    \A i, j \in 1..Len(renderer_ops) :
        (/\ i < j
         /\ renderer_ops[i].ctx = renderer_ops[j].ctx
         /\ renderer_ops[i].frame = renderer_ops[j].frame)
            => OneContextBetween(i, j)

\* C12, amended: the renderer operations of one call (the texture updates
\* of a handle_delta; the buffer upload and the draw recording of a render)
\* have no renderer operation of another context between them.  The guard is
\* dropped when handle_delta returns, so another context's call may run
\* between a frame's handle_delta and its render.
C12_CallsDoNotInterleave ==
    \A i, j \in 1..Len(renderer_ops) :
        (/\ i < j
         /\ renderer_ops[i].ctx = renderer_ops[j].ctx
         /\ renderer_ops[i].call = renderer_ops[j].call)
            => OneContextBetween(i, j)

\* A's frame, its handle_delta updating two textures, with a call of B
\* between its handle_delta and its render.
C12_Witness ==
    /\ Len(renderer_ops) = 5
    /\ renderer_ops[1].ctx = "A" /\ renderer_ops[1].op = "update_texture"
    /\ renderer_ops[2].ctx = "A" /\ renderer_ops[2].op = "update_texture"
    /\ renderer_ops[3].ctx = "B"
    /\ renderer_ops[4].ctx = "A" /\ renderer_ops[4].op = "update_buffers"
    /\ renderer_ops[5].ctx = "A" /\ renderer_ops[5].op = "render"
    /\ renderer_ops[5].frame = renderer_ops[1].frame

====
